---- MODULE Spec2Model ----
(***************************************************************************)
(* The chat broadcast server of examples/chat.rs: the accept loop (main),  *)
(* one handle_client task and one write task per connection, the registry  *)
(* State.peers (a DashMap from the connection's address to the Sender of   *)
(* its mailbox) and the tokio mpsc mailboxes.                              *)
(*                                                                         *)
(* Granularity: one action per piece of code between two points where a    *)
(* task can be held up (an .await that may suspend, or a DashMap shard     *)
(* lock that may have to be waited for).                                   *)
(***************************************************************************)
EXTENDS Integers, Sequences, FiniteSets, TLC

\* ------------------------------------------------------------------ bounds
\* Connections the listener accepts during a run (their SocketAddr: 1..NumPeers).
NumPeers == 3
\* Lines the clients send, all together, after their username lines.
MaxLines == 1
\* Connections whose read loop ends (EOF or read error) during a run.
MaxLeaves == 1
\* Connections that fail before their username line during a run.
MaxHandshakeFailures == 1
\* Sockets on which a write of the write task fails during a run.
MaxWriteErrors == 1
\* Lines, read-loop ends, handshake failures and write errors of a run, all together.
MaxEvents == 2
\* Shards of the DashMap explored (DashMap::default: a power of two from the CPU count).
NumShards == 2
\* Capacity of a mailbox that the model explores; see Capacity.
MaxMailbox == 2

\* ------------------------------------------------------------------ constants
\* const MAX_MESSAGES: usize = 128;
MAX_MESSAGES == 128

Peers == 1..NumPeers
Shards == 0..(NumShards - 1)
NoShard == -1
NoPeer == 0

Min(a, b) == IF a <= b THEN a ELSE b

\* mpsc::channel(MAX_MESSAGES): the buffer of the channel. The model explores
\* mailboxes of up to MaxMailbox messages, so that a full mailbox is reached
\* within the other bounds; the code's behaviour on a full mailbox does not
\* depend on the number.
Capacity == Min(MAX_MESSAGES, MaxMailbox)

\* enum Message, built by Message::user_joined, Message::chat, Message::user_left.
\* `from` is the connection whose handler built it and n the number of the
\* line it carries (0 for a join or a leave).
user_joined(p) == [kind |-> "UserJoined", from |-> p, n |-> 0]
chat(p, line) == [kind |-> "Chat", from |-> p, n |-> line]
user_left(p) == [kind |-> "UserLeft", from |-> p, n |-> 0]
NoMsg == [kind |-> "None", from |-> NoPeer, n |-> 0]

\* The order in which one handler builds its messages: UserJoined, then the
\* Chat of line 1, 2, ..., then UserLeft.
Rank(m) ==
    CASE m.kind = "UserJoined" -> 1
      [] m.kind = "Chat" -> 1 + m.n
      [] m.kind = "UserLeft" -> 2 + MaxLines
      [] OTHER -> 0

\* DashMap::determine_shard(hash(addr)): the shard that holds a key. The hash
\* spreads the addresses over the shards; here address p falls into shard
\* p mod NumShards, so that some addresses share a shard and some do not.
determine_shard(p) == p % NumShards

\* The username that the client of connection p sends in the runs of Spec.
Name(p) ==
    CASE p = 1 -> "alice"
      [] p = 2 -> "bob"
      [] p = 3 -> "carol"
      [] OTHER -> "dave"

VARIABLES
    server,   \* main: "init" | "listening" | "bind_failed" | "exited"
    pc,       \* where each connection's handle_client task is
    lines,    \* lines each handler's read loop has produced
    peers,    \* State.peers: the addresses that have an entry (its value is the
              \* Sender of that address' mailbox)
    mailbox,  \* the buffer of each connection's mpsc channel
    rx,       \* the write task (owner of the Receiver): "none" | "open" |
              \* "failed" (ended on a write error) | "closed" (ended on recv() = None)
    bmsg,     \* broadcast: its message argument
    shard_i,  \* broadcast: Iter.shard_i, the next shard the iterator locks
    guard,    \* broadcast: the shard whose read guard the iterator (Iter.current)
              \* and the item `peer` hold, or NoShard
    todo,     \* broadcast: keys the iterator has yet to yield from the locked shard
    cur,      \* broadcast: key of the item `peer` whose send is pending, or NoPeer
    username, \* Peer.username: the username line the client of each connection sends
    typed,    \* typed[n]: the text of the n-th line that clients send after their
              \* username lines
    out,      \* the write tasks: out[r][s] is the last line of sender s that
              \* the write task of r has put on its socket (stream_sender) since
              \* it was spawned, "" if none; the record ends with the task
    last,     \* history: last[r][s] is the rank of the last message of sender
              \* s enqueued into the mailbox of r
    whole     \* history: the peers registered since the handler's current
              \* broadcast call began

vars == <<server, pc, lines, peers, mailbox, rx, bmsg, shard_i, guard,
          todo, cur, last, whole, username, typed, out>>

\* What the clients send and what the write tasks have put on the sockets.
io == <<username, typed, out>>

bcvars == <<bmsg, shard_i, guard, todo, cur>>

\* The String fields of a Message. Message::user_joined and Message::user_left
\* format their content from the username; Message::chat takes sender and
\* content as they are.
content(m) ==
    CASE m.kind = "UserJoined" -> username[m.from] \o " has joined the chat"
      [] m.kind = "UserLeft" -> username[m.from] \o " has left the chat"
      [] m.kind = "Chat" -> typed[m.n]
      [] OTHER -> ""

sender(m) == username[m.from]

\* Mutant: a UserLeft is rendered like a UserJoined, without the " :(".
fmt_LeftLikeJoined(m) ==
    CASE m.kind = "UserJoined" -> "[" \o content(m) \o "]"
      [] m.kind = "UserLeft" -> "[" \o content(m) \o "]"
      [] m.kind = "Chat" -> sender(m) \o ": " \o content(m)
      [] OTHER -> ""

\* impl fmt::Display for Message
fmt(m) ==
    CASE m.kind = "UserJoined" -> "[" \o content(m) \o "]"
      [] m.kind = "UserLeft" -> "[" \o content(m) \o " :(]"
      [] m.kind = "Chat" -> sender(m) \o ": " \o content(m)
      [] OTHER -> ""

\* message.to_string(): ToString through Display.
to_string(m) == fmt(m)

Init ==
    /\ server = "init"
    /\ pc = [p \in Peers |-> "unconnected"]
    /\ lines = [p \in Peers |-> 0]
    /\ peers = {}
    /\ mailbox = [p \in Peers |-> <<>>]
    /\ rx = [p \in Peers |-> "none"]
    /\ bmsg = [p \in Peers |-> NoMsg]
    /\ shard_i = [p \in Peers |-> 0]
    /\ guard = [p \in Peers |-> NoShard]
    /\ todo = [p \in Peers |-> {}]
    /\ cur = [p \in Peers |-> NoPeer]
    /\ last = [r \in Peers |-> [s \in Peers |-> 0]]
    /\ whole = [p \in Peers |-> {}]
    /\ username = [p \in Peers |-> Name(p)]
    /\ typed = [n \in 1..MaxLines |-> "hello"]
    /\ out = [r \in Peers |-> [s \in Peers |-> ""]]

\* ------------------------------------------------------------------ the registry
\* The keys stored in one shard of State.peers.
Entries(s) == {k \in peers : determine_shard(k) = s}

\* A shard's RwLock is read-locked while some broadcast's iterator is on it.
ReadHeld(s) == \E q \in Peers : guard[q] = s

\* Mutant: the write lock is granted while read guards are out.
WriteLockFree_Always(s) == TRUE

\* DashMap::insert and DashMap::remove take the write lock of the key's shard,
\* which is granted only when nobody holds a read guard on it.
WriteLockFree(s) == ~ReadHeld(s)

\* ------------------------------------------------------------------ the mailbox
\* The Sender handles of r's channel: State::add moves tx into the registry
\* and nothing clones it (broadcast sends through a borrow of the entry's
\* value), so there is one while the entry exists and none otherwise.
Senders(r) == IF r \in peers THEN 1 ELSE 0

\* mpsc::Sender::send fails once the Receiver is gone (the write task ended).
Closed(r) == rx[r] \in {"failed", "closed"}

\* Mutant: the channel always has a permit to give.
Full_Never(r) == FALSE

\* The channel has no permit left: its buffer holds as many messages as
\* mpsc::channel was given.
Full(r) == Len(mailbox[r]) >= Capacity

\* Mutant: send puts the message at the front of the queue.
Enqueue_Front(q, m) == <<m>> \o q

\* The channel is a queue: send puts a message at its back.
Enqueue(q, m) == Append(q, m)

\* Mutant: main goes on to its accept loop after a failed bind.
Running_AfterBindError == server \in {"listening", "bind_failed"}

\* tokio runs tasks only while main has not returned.
Running == server = "listening"

InBroadcast(p) == pc[p] \in {"bc", "bc_send", "bc_remove"}

\* What the run has used of its bounds.
RECURSIVE Sum(_, _)
Sum(f, S) == IF S = {} THEN 0 ELSE LET x == CHOOSE y \in S : TRUE IN f[x] + Sum(f, S \ {x})
LinesRead == Sum(lines, Peers)
HasLeft(p) == pc[p] \in {"remove", "returned"} \/ bmsg[p].kind = "UserLeft"
Leaves == Cardinality({p \in Peers : HasLeft(p)})
HandshakeFailures == Cardinality({p \in Peers : pc[p] = "hs_failed"})
WriteErrors == Cardinality({p \in Peers : rx[p] = "failed"})
Events == LinesRead + Leaves + HandshakeFailures + WriteErrors

\* ------------------------------------------------------------------ main
\* TcpListener::bind(addr).await? succeeds.
Bind ==
    /\ server = "init"
    /\ server' = "listening"
    /\ UNCHANGED <<io, pc, lines, peers, mailbox, rx, bcvars, last, whole>>

\* TcpListener::bind(addr).await? fails: main returns the error.
BindError ==
    /\ server = "init"
    /\ server' = "bind_failed"
    /\ UNCHANGED <<io, pc, lines, peers, mailbox, rx, bcvars, last, whole>>

\* listener.accept().await? yields a connection; main spawns handle_client.
Accept(p) ==
    /\ Running
    /\ pc[p] = "unconnected"
    /\ pc' = [pc EXCEPT ![p] = "prompt"]
    /\ UNCHANGED <<io, server, lines, peers, mailbox, rx, bcvars, last, whole>>

\* listener.accept().await? fails: the `?` makes main return, which shuts the
\* runtime down: every task is dropped where it stands, and the registry and
\* the channels go with the process.
AcceptError ==
    /\ Running
    /\ server' = "exited"
    /\ pc' = [p \in Peers |-> "cancelled"]
    /\ lines' = [p \in Peers |-> 0]
    /\ peers' = {}
    /\ mailbox' = [p \in Peers |-> <<>>]
    /\ rx' = [p \in Peers |-> "none"]
    /\ bmsg' = [p \in Peers |-> NoMsg]
    /\ shard_i' = [p \in Peers |-> 0]
    /\ guard' = [p \in Peers |-> NoShard]
    /\ todo' = [p \in Peers |-> {}]
    /\ cur' = [p \in Peers |-> NoPeer]
    /\ last' = [r \in Peers |-> [s \in Peers |-> 0]]
    /\ whole' = [p \in Peers |-> {}]
    /\ out' = [r \in Peers |-> [s \in Peers |-> ""]]
    /\ UNCHANGED <<username, typed>>

\* ------------------------------------------------------------------ handle_client: handshake
\* stream.send("Enter your username:").await? succeeds.
SendPrompt(p) ==
    /\ Running
    /\ pc[p] = "prompt"
    /\ pc' = [pc EXCEPT ![p] = "username"]
    /\ UNCHANGED <<io, server, lines, peers, mailbox, rx, bcvars, last, whole>>

\* stream.send("Enter your username:").await? fails: handle_client returns Err.
SendPromptError(p) ==
    /\ Running
    /\ pc[p] = "prompt"
    /\ HandshakeFailures < MaxHandshakeFailures
    /\ Events < MaxEvents
    /\ pc' = [pc EXCEPT ![p] = "hs_failed"]
    /\ UNCHANGED <<io, server, lines, peers, mailbox, rx, bcvars, last, whole>>

\* Mutant: the registry entry is inserted before the username has been read.
UsernameClosed_Registered(p) ==
    /\ Running
    /\ pc[p] = "username"
    /\ HandshakeFailures < MaxHandshakeFailures
    /\ Events < MaxEvents
    /\ pc' = [pc EXCEPT ![p] = "hs_failed"]
    /\ peers' = peers \cup {p}
    /\ UNCHANGED <<io, server, lines, mailbox, rx, bcvars, last, whole>>

\* stream.next().await is Some(Err(e)) (return Err) or None (return Ok).
UsernameClosed(p) ==
    /\ Running
    /\ pc[p] = "username"
    /\ HandshakeFailures < MaxHandshakeFailures
    /\ Events < MaxEvents
    /\ pc' = [pc EXCEPT ![p] = "hs_failed"]
    /\ UNCHANGED <<io, server, lines, peers, mailbox, rx, bcvars, last, whole>>

\* ------------------------------------------------------------------ State::broadcast
\* The call state.broadcast(addr, message) begins: the iterator self.peers.iter()
\* is created, holding no shard yet.
BeginBroadcast(p, m, registry) ==
    /\ pc' = [pc EXCEPT ![p] = "bc"]
    /\ bmsg' = [bmsg EXCEPT ![p] = m]
    /\ shard_i' = [shard_i EXCEPT ![p] = 0]
    /\ guard' = [guard EXCEPT ![p] = NoShard]
    /\ todo' = [todo EXCEPT ![p] = {}]
    /\ cur' = [cur EXCEPT ![p] = NoPeer]
    /\ whole' = [q \in Peers |->
                    IF q = p THEN registry \ {p}
                    ELSE IF InBroadcast(q) THEN whole[q] \cap registry
                    ELSE whole[q]]

\* Mutant: the loop lacks the test for the caller's own key.
Skipped_Nothing(p, k) == FALSE

\* if peer.key() == &addr { continue; }
Skipped(p, k) == k = p

\* The keys of shard s that the loop of broadcast(p, ..) sends to.
Targets(p, s) == {k \in Entries(s) : ~Skipped(p, k)}

\* Mutant: the iterator ends after the first shard that yields an item.
NextShard_FirstOnly(p) ==
    LET cand == {s \in Shards : s >= shard_i[p] /\ Targets(p, s) # {}}
    IN IF cand = {} \/ guard[p] # NoShard THEN NumShards
       ELSE CHOOSE s \in cand : \A t \in cand : s <= t

\* Iter::next when the locked shard is used up: the first shard from shard_i on
\* that holds a key the loop does not skip, or NumShards when the iterator is
\* exhausted.
NextShard(p) ==
    LET cand == {s \in Shards : s >= shard_i[p] /\ Targets(p, s) # {}}
    IN IF cand = {} THEN NumShards
       ELSE CHOOSE s \in cand : \A t \in cand : s <= t

\* Mutant: the iterator yields again an item it has already yielded.
Send_KeepsItem(p, r, g, i, rest) ==
    /\ shard_i' = [shard_i EXCEPT ![p] = i]
    /\ guard' = [guard EXCEPT ![p] = g]
    /\ todo' = [todo EXCEPT ![p] = rest \cup {r}]
    /\ UNCHANGED <<bmsg, whole>>
    /\ IF Closed(r)
       THEN /\ pc' = [pc EXCEPT ![p] = "bc_remove"]
            /\ cur' = [cur EXCEPT ![p] = r]
            /\ UNCHANGED <<mailbox, last>>
       ELSE IF Full(r)
       THEN /\ pc' = [pc EXCEPT ![p] = "bc_send"]
            /\ cur' = [cur EXCEPT ![p] = r]
            /\ UNCHANGED <<mailbox, last>>
       ELSE /\ pc' = [pc EXCEPT ![p] = "bc"]
            /\ cur' = [cur EXCEPT ![p] = NoPeer]
            /\ mailbox' = [mailbox EXCEPT ![r] = Enqueue(mailbox[r], bmsg[p])]
            /\ last' = [last EXCEPT ![r][bmsg[p].from] = Rank(bmsg[p])]

\* peer.value().send(message.clone()).await on the item r, the iterator being
\* left with guard g, shard_i i and the keys rest still to yield.
Send(p, r, g, i, rest) ==
    /\ shard_i' = [shard_i EXCEPT ![p] = i]
    /\ guard' = [guard EXCEPT ![p] = g]
    /\ todo' = [todo EXCEPT ![p] = rest]
    /\ UNCHANGED <<bmsg, whole>>
    /\ IF Closed(r)
       THEN \* Err(e): warn!, then self.peers.remove(peer.key())
            /\ pc' = [pc EXCEPT ![p] = "bc_remove"]
            /\ cur' = [cur EXCEPT ![p] = r]
            /\ UNCHANGED <<mailbox, last>>
       ELSE IF Full(r)
       THEN \* no permit: the send future suspends
            /\ pc' = [pc EXCEPT ![p] = "bc_send"]
            /\ cur' = [cur EXCEPT ![p] = r]
            /\ UNCHANGED <<mailbox, last>>
       ELSE \* Ok(()): the loop goes on to the next item
            /\ pc' = [pc EXCEPT ![p] = "bc"]
            /\ cur' = [cur EXCEPT ![p] = NoPeer]
            /\ mailbox' = [mailbox EXCEPT ![r] = Enqueue(mailbox[r], bmsg[p])]
            /\ last' = [last EXCEPT ![r][bmsg[p].from] = Rank(bmsg[p])]

\* One turn of `for peer in self.peers.iter()`: Iter::next yields an item other
\* than the caller's own (from the locked shard, or after locking the next
\* shard that has one) and the body sends to it.
BroadcastNext(p) ==
    /\ Running
    /\ pc[p] = "bc"
    /\ IF todo[p] # {}
       THEN \E r \in todo[p] : Send(p, r, guard[p], shard_i[p], todo[p] \ {r})
       ELSE /\ NextShard(p) < NumShards
            /\ \E r \in Targets(p, NextShard(p)) :
                   Send(p, r, NextShard(p), NextShard(p) + 1,
                        Targets(p, NextShard(p)) \ {r})
    /\ UNCHANGED <<io, server, lines, peers, rx>>

\* The send future that was suspended on a full mailbox is woken: a permit was
\* freed, or the Receiver was dropped.
BroadcastSendResume(p) ==
    /\ Running
    /\ pc[p] = "bc_send"
    /\ Closed(cur[p]) \/ ~Full(cur[p])
    /\ Send(p, cur[p], guard[p], shard_i[p], todo[p])
    /\ UNCHANGED <<io, server, lines, peers, rx>>

\* Mutant: a handler that returns from its UserLeft broadcast puts its entry back.
BroadcastReturn_Reinserts(p) ==
    /\ Running
    /\ pc[p] = "bc"
    /\ todo[p] = {}
    /\ NextShard(p) = NumShards
    /\ pc' = [pc EXCEPT ![p] = IF bmsg[p].kind = "UserLeft" THEN "returned" ELSE "read"]
    /\ peers' = IF bmsg[p].kind = "UserLeft" THEN peers \cup {p} ELSE peers
    /\ guard' = [guard EXCEPT ![p] = NoShard]
    /\ shard_i' = [shard_i EXCEPT ![p] = 0]
    /\ bmsg' = [bmsg EXCEPT ![p] = NoMsg]
    /\ whole' = [whole EXCEPT ![p] = {}]
    /\ UNCHANGED <<io, server, lines, mailbox, rx, todo, cur, last>>

\* Iter::next returns None: the loop ends, the iterator and its guard are
\* dropped and broadcast returns to handle_client, which goes back to its read
\* loop or, after the UserLeft broadcast, returns Ok(()).
BroadcastReturn(p) ==
    /\ Running
    /\ pc[p] = "bc"
    /\ todo[p] = {}
    /\ NextShard(p) = NumShards
    /\ pc' = [pc EXCEPT ![p] = IF bmsg[p].kind = "UserLeft" THEN "returned" ELSE "read"]
    /\ guard' = [guard EXCEPT ![p] = NoShard]
    /\ shard_i' = [shard_i EXCEPT ![p] = 0]
    /\ bmsg' = [bmsg EXCEPT ![p] = NoMsg]
    /\ whole' = [whole EXCEPT ![p] = {}]
    /\ UNCHANGED <<io, server, lines, peers, mailbox, rx, todo, cur, last>>

\* ------------------------------------------------------------------ State::add
\* stream.next().await is Some(Ok(username)); state.add creates the channel,
\* inserts its Sender under addr and spawns the write task; handle_client then
\* builds the UserJoined message and calls broadcast.
Add(p) ==
    /\ Running
    /\ pc[p] = "username"
    /\ WriteLockFree(determine_shard(p))
    /\ peers' = peers \cup {p}
    /\ mailbox' = [mailbox EXCEPT ![p] = <<>>]
    /\ rx' = [rx EXCEPT ![p] = "open"]
    /\ BeginBroadcast(p, user_joined(p), peers \cup {p})
    /\ UNCHANGED <<io, server, lines, last>>

\* ------------------------------------------------------------------ handle_client: read loop
\* Mutant: the read loop announces the user again for every line it reads.
ReadLine_Rejoins(p) ==
    /\ Running
    /\ pc[p] = "read"
    /\ LinesRead < MaxLines
    /\ Events < MaxEvents
    /\ lines' = [lines EXCEPT ![p] = lines[p] + 1]
    /\ BeginBroadcast(p, user_joined(p), peers)
    /\ UNCHANGED <<io, server, peers, mailbox, rx, last>>

\* peer.stream.next().await is Some(Ok(line)): broadcast the Chat message.
ReadLine(p) ==
    /\ Running
    /\ pc[p] = "read"
    /\ LinesRead < MaxLines
    /\ Events < MaxEvents
    /\ lines' = [lines EXCEPT ![p] = lines[p] + 1]
    /\ BeginBroadcast(p, chat(p, lines[p] + 1), peers)
    /\ UNCHANGED <<io, server, peers, mailbox, rx, last>>

\* peer.stream.next().await is None, or Some(Err(e)) (warn!, break): the loop ends.
ReadEnd(p) ==
    /\ Running
    /\ pc[p] = "read"
    /\ Leaves < MaxLeaves
    /\ Events < MaxEvents
    /\ pc' = [pc EXCEPT ![p] = "remove"]
    /\ UNCHANGED <<io, server, lines, peers, mailbox, rx, bcvars, last, whole>>

\* Mutant: handle_client does not remove its entry after the read loop.
Remove_Omitted(p) ==
    LET key == IF pc[p] = "remove" THEN p ELSE cur[p]
    IN /\ Running
       /\ pc[p] \in {"remove", "bc_remove"}
       /\ WriteLockFree(determine_shard(key))
       /\ peers' = IF pc[p] = "remove" THEN peers ELSE peers \ {key}
       /\ IF pc[p] = "remove"
          THEN BeginBroadcast(p, user_left(p), peers)
          ELSE /\ pc' = [pc EXCEPT ![p] = "bc"]
               /\ cur' = [cur EXCEPT ![p] = NoPeer]
               /\ whole' = [q \in Peers |->
                               IF InBroadcast(q) THEN whole[q] \ {key} ELSE whole[q]]
               /\ UNCHANGED <<bmsg, shard_i, guard, todo>>
       /\ UNCHANGED <<io, server, lines, mailbox, rx, last>>

\* DashMap::remove(key), at its two call sites: state.peers.remove(&addr) after
\* the read loop, followed by the UserLeft broadcast, and
\* self.peers.remove(peer.key()) in broadcast after a failed send, followed by
\* the next turn of the loop. The entry's Sender is dropped with the entry.
Remove(p) ==
    LET key == IF pc[p] = "remove" THEN p ELSE cur[p]
    IN /\ Running
       /\ pc[p] \in {"remove", "bc_remove"}
       /\ WriteLockFree(determine_shard(key))
       /\ peers' = peers \ {key}
       /\ IF pc[p] = "remove"
          THEN BeginBroadcast(p, user_left(p), peers \ {key})
          ELSE /\ pc' = [pc EXCEPT ![p] = "bc"]
               /\ cur' = [cur EXCEPT ![p] = NoPeer]
               /\ whole' = [q \in Peers |->
                               IF InBroadcast(q) THEN whole[q] \ {key} ELSE whole[q]]
               /\ UNCHANGED <<bmsg, shard_i, guard, todo>>
       /\ UNCHANGED <<io, server, lines, mailbox, rx, last>>

\* ------------------------------------------------------------------ the write task
\* Mutant: the write task takes the newest message of the mailbox, not the oldest.
WriteMessage_Newest(r) ==
    LET n == Len(mailbox[r])
    IN /\ Running
       /\ rx[r] = "open"
       /\ mailbox[r] # <<>>
       /\ mailbox' = [mailbox EXCEPT ![r] = SubSeq(mailbox[r], 1, n - 1)]
       /\ out' = [out EXCEPT ![r][mailbox[r][n].from] = to_string(mailbox[r][n])]
       /\ UNCHANGED <<username, typed, server, pc, lines, peers, rx, bcvars, last, whole>>

\* rx.recv().await is Some(message) and stream_sender.send(message.to_string())
\* .await is Ok: the oldest message leaves the mailbox and its rendering is
\* put on the socket.
WriteMessage(r) ==
    /\ Running
    /\ rx[r] = "open"
    /\ mailbox[r] # <<>>
    /\ mailbox' = [mailbox EXCEPT ![r] = Tail(mailbox[r])]
    /\ out' = [out EXCEPT ![r][Head(mailbox[r]).from] = to_string(Head(mailbox[r]))]
    /\ UNCHANGED <<username, typed, server, pc, lines, peers, rx, bcvars, last, whole>>

\* Mutant: the write task unregisters its connection when a write fails.
WriteError_Unregisters(r) ==
    /\ Running
    /\ rx[r] = "open"
    /\ mailbox[r] # <<>>
    /\ WriteErrors < MaxWriteErrors
    /\ Events < MaxEvents
    /\ WriteLockFree(determine_shard(r))
    /\ peers' = peers \ {r}
    /\ mailbox' = [mailbox EXCEPT ![r] = <<>>]
    /\ rx' = [rx EXCEPT ![r] = "failed"]
    /\ out' = [out EXCEPT ![r] = [s \in Peers |-> ""]]
    /\ UNCHANGED <<username, typed, server, pc, lines, bcvars, last, whole>>

\* rx.recv().await is Some(message) and stream_sender.send(..).await is Err:
\* warn!, break; the task ends and drops the Receiver with what it buffered.
WriteError(r) ==
    /\ Running
    /\ rx[r] = "open"
    /\ mailbox[r] # <<>>
    /\ WriteErrors < MaxWriteErrors
    /\ Events < MaxEvents
    /\ mailbox' = [mailbox EXCEPT ![r] = <<>>]
    /\ rx' = [rx EXCEPT ![r] = "failed"]
    /\ out' = [out EXCEPT ![r] = [s \in Peers |-> ""]]
    /\ UNCHANGED <<username, typed, server, pc, lines, peers, bcvars, last, whole>>

\* Mutant: recv() returns None on an empty buffer while the Sender is still
\* in the registry.
WriteClosed_Early(r) ==
    /\ Running
    /\ rx[r] = "open"
    /\ mailbox[r] = <<>>
    /\ rx' = [rx EXCEPT ![r] = "closed"]
    /\ out' = [out EXCEPT ![r] = [s \in Peers |-> ""]]
    /\ UNCHANGED <<username, typed, server, pc, lines, peers, mailbox, bcvars, last, whole>>

\* rx.recv().await is None: the buffer is empty and the only Sender, the one
\* in the registry, has been dropped. The task ends.
WriteClosed(r) ==
    /\ Running
    /\ rx[r] = "open"
    /\ mailbox[r] = <<>>
    /\ r \notin peers
    /\ rx' = [rx EXCEPT ![r] = "closed"]
    /\ out' = [out EXCEPT ![r] = [s \in Peers |-> ""]]
    /\ UNCHANGED <<username, typed, server, pc, lines, peers, mailbox, bcvars, last, whole>>

Next ==
    \/ Bind
    \/ BindError
    \/ AcceptError
    \/ \E p \in Peers :
        \/ Accept(p)
        \/ SendPrompt(p)
        \/ SendPromptError(p)
        \/ UsernameClosed(p)
        \/ Add(p)
        \/ BroadcastNext(p)
        \/ BroadcastSendResume(p)
        \/ BroadcastReturn(p)
        \/ ReadLine(p)
        \/ ReadEnd(p)
        \/ Remove(p)
        \/ WriteMessage(p)
        \/ WriteError(p)
        \/ WriteClosed(p)

Spec == Init /\ [][Next]_vars

\* ------------------------------------------------------------------ rendering
\* Username lines and chat lines that clients may send: any text, the empty
\* line and text that looks like a rendered message included.
Usernames == {"alice", "bob", ""}
Contents == {"hello", "bob: hi", ""}

\* The states in which one message M of connection s waits in the mailbox of
\* connection r to be rendered and written, for every choice of the usernames
\* and of the line texts: r registered, then s registered and its UserJoined
\* was enqueued for r; for a Chat or a UserLeft that UserJoined has been
\* written, and s has read a line and broadcast it, or has ended its read
\* loop, removed its entry and broadcast its UserLeft.
RenderInit ==
    \E r \in Peers, s \in Peers, kind \in {"UserJoined", "Chat", "UserLeft"} :
        LET M == CASE kind = "UserJoined" -> user_joined(s)
                   [] kind = "Chat" -> chat(s, 1)
                   [] kind = "UserLeft" -> user_left(s)
        IN /\ r # s
           /\ username \in [Peers -> Usernames]
           /\ typed \in [1..MaxLines -> Contents]
           /\ server = "listening"
           /\ pc = [p \in Peers |->
                       IF p = r THEN "read"
                       ELSE IF p # s THEN "unconnected"
                       ELSE IF kind = "UserLeft" THEN "returned" ELSE "read"]
           /\ lines = [p \in Peers |-> IF p = s /\ kind = "Chat" THEN 1 ELSE 0]
           /\ peers = IF kind = "UserLeft" THEN {r} ELSE {r, s}
           /\ mailbox = [p \in Peers |-> IF p = r THEN <<M>> ELSE <<>>]
           /\ rx = [p \in Peers |-> IF p \in {r, s} THEN "open" ELSE "none"]
           /\ bmsg = [p \in Peers |-> NoMsg]
           /\ shard_i = [p \in Peers |-> 0]
           /\ guard = [p \in Peers |-> NoShard]
           /\ todo = [p \in Peers |-> {}]
           /\ cur = [p \in Peers |-> NoPeer]
           /\ last = [p \in Peers |-> [q \in Peers |->
                         IF p = r /\ q = s THEN Rank(M) ELSE 0]]
           /\ whole = [p \in Peers |-> {}]
           /\ out = [p \in Peers |-> [q \in Peers |->
                        IF p = r /\ q = s /\ kind # "UserJoined"
                        THEN to_string(user_joined(s)) ELSE ""]]

\* The write task renders the waiting message and writes it.
RenderNext == \E r \in Peers : WriteMessage(r)

RenderSpec == RenderInit /\ [][RenderNext]_vars

\* ================================================================== properties

\* The step by which handler p's broadcast call returns.
Returns(p) == pc[p] = "bc" /\ pc'[p] \in {"read", "returned"}

\* The message of p's current broadcast call has been enqueued into r's mailbox.
Delivered(p, r) == bmsg[p] # NoMsg /\ last[r][p] = Rank(bmsg[p])

\* No mailbox holds, or has ever been sent, a message of its own connection.
NoSelfDelivery ==
    \A p \in Peers :
        /\ last[p][p] = 0
        /\ \A i \in 1..Len(mailbox[p]) : mailbox[p][i].from # p

\* p's broadcast of a message of the given kind has reached every target and
\* is about to return.
Completing(p, kind) ==
    /\ pc[p] = "bc"
    /\ bmsg[p].kind = kind
    /\ todo[p] = {}
    /\ NextShard(p) = NumShards

\* C1: when a broadcast of a Chat message by P returns, the message has been
\* enqueued into the mailbox of every other peer that was registered from the
\* beginning of the call to its end, and no mailbox ever receives a message
\* of its own connection.
C1_ChatReachesEveryOtherPeer ==
    [][/\ \A p \in Peers :
             (Returns(p) /\ bmsg[p].kind = "Chat") =>
                 \A r \in whole[p] : r # p /\ Delivered(p, r)
       /\ NoSelfDelivery']_vars

\* C1 witness: a Chat broadcast is about to return after it has enqueued its
\* message for two peers that were registered all along.
C1_Witness ==
    \E p \in Peers :
        /\ Completing(p, "Chat")
        /\ Cardinality(whole[p]) >= 2
        /\ \A r \in whole[p] : Delivered(p, r)

\* C2: a full mailbox never holds a broadcast up: a handler inside
\* send(..).await can always go on by itself (the send completes or fails)
\* without the recipient's write task taking a message out of the mailbox.
C2_FullMailboxNeverBlocks ==
    \A p \in Peers : pc[p] = "bc_send" => ENABLED BroadcastSendResume(p)

\* C3: a delivery that fails makes the broadcast remove the target's entry
\* and go on with the remaining peers: a handler that is in the failure path
\* of broadcast, with no other task holding the lock of the target's shard,
\* can carry out the removal.
C3_FailedDeliveryRemovesTarget ==
    \A p \in Peers :
        (/\ pc[p] = "bc_remove"
         /\ \A q \in Peers \ {p} : guard[q] # determine_shard(cur[p]))
            => ENABLED Remove(p)

\* A step of the handler task or of the write task of connection q.
TaskStep(q) ==
    \/ SendPrompt(q) \/ SendPromptError(q) \/ UsernameClosed(q) \/ Add(q)
    \/ BroadcastNext(q) \/ BroadcastSendResume(q) \/ BroadcastReturn(q)
    \/ ReadLine(q) \/ ReadEnd(q) \/ Remove(q)
    \/ WriteMessage(q) \/ WriteError(q) \/ WriteClosed(q)

\* No task of any connection can take a step: nothing more will happen to the
\* connections there are.
Quiescent == \A q \in Peers : ~ENABLED TaskStep(q)

\* C4: the end of a read loop leads to the Left broadcast: once the tasks
\* have done all they can, every handler whose read loop has ended has
\* removed its entry, carried out its Left broadcast and returned.
C4_ReadLoopEndLeadsToLeft ==
    (Running /\ Quiescent) => \A p \in Peers : HasLeft(p) => pc[p] = "returned"

\* The entry of x was inserted and its removal has completed.
Unregistered(x) == rx[x] # "none" /\ x \notin peers

\* This step enqueues a message into the mailbox of r.
EnqueuedInto(r) ==
    \/ Len(mailbox'[r]) > Len(mailbox[r])
    \/ \E s \in Peers : last'[r][s] > last[r][s]

\* C5: once the removal of X's entry has completed, no step of any broadcast
\* enqueues a message into X's mailbox.
C5_NoEnqueueAfterRemoval ==
    [][\A x \in Peers : Unregistered(x) => ~EnqueuedInto(x)]_vars

\* C5 witness: X's entry has been removed while a broadcast of Q that had
\* already enqueued its message for X is still in progress.
C5_Witness ==
    \E x \in Peers, q \in Peers :
        /\ q # x
        /\ Unregistered(x)
        /\ InBroadcast(q)
        /\ Delivered(q, x)

\* C6: when the UserJoined broadcast of a connection returns, the message has
\* been enqueued into the mailbox of every other peer registered from the
\* beginning of the call to its end, and the joining connection's own mailbox
\* never receives it.
C6_JoinedReachesEveryOtherPeer ==
    [][/\ \A p \in Peers :
             (Returns(p) /\ bmsg[p].kind = "UserJoined") =>
                 \A r \in whole[p] : r # p /\ Delivered(p, r)
       /\ \A p \in Peers :
             /\ last'[p][p] = 0
             /\ \A i \in 1..Len(mailbox'[p]) : mailbox'[p][i] # user_joined(p)]_vars

\* C6 witness: a UserJoined broadcast is about to return after it has enqueued
\* its message for two peers that were registered all along.
C6_Witness ==
    \E p \in Peers :
        /\ Completing(p, "UserJoined")
        /\ Cardinality(whole[p]) >= 2
        /\ \A r \in whole[p] : Delivered(p, r)
        /\ mailbox[p] = <<>>

\* Connection p has no registry entry, no channel, no write task and no
\* message of its own anywhere.
NeverRegistered(p) ==
    /\ p \notin peers
    /\ rx[p] = "none"
    /\ mailbox[p] = <<>>
    /\ bmsg[p] = NoMsg
    /\ \A r \in Peers :
          /\ last[r][p] = 0
          /\ \A i \in 1..Len(mailbox[r]) : mailbox[r][i].from # p

\* C7: a handler that ends during the handshake (the prompt cannot be sent,
\* or the stream closes or fails before the username) leaves the registry,
\* the channels and the mailboxes as they are, and has never registered or
\* broadcast anything.
C7_HandshakeFailureIsSilent ==
    [][\A p \in Peers :
          pc'[p] = "hs_failed" =>
             /\ NeverRegistered(p)'
             /\ pc[p] # "hs_failed" => UNCHANGED <<peers, mailbox, rx, last, bmsg>>]_vars

\* C7 witness: a handshake has failed while another peer is registered and
\* has a message pending.
C7_Witness ==
    \E p \in Peers, r \in Peers :
        /\ pc[p] = "hs_failed"
        /\ r \in peers
        /\ mailbox[r] # <<>>

\* C8: a handler that removes its own entry and a broadcast that removes the
\* same entry after a failed delivery both get through: at least one of the
\* two removals can be carried out at any time.
C8_DoubleRemoveCompletes ==
    \A p \in Peers, q \in Peers :
        (pc[p] = "remove" /\ pc[q] = "bc_remove" /\ cur[q] = p)
            => (ENABLED Remove(p) \/ ENABLED Remove(q))

\* The handler of p has completed its handshake and is not past its read loop.
Active(p) == pc[p] = "read" \/ (InBroadcast(p) /\ bmsg[p].kind # "UserLeft")

\* C9 as claimed: the registry holds an entry for p exactly while p's handler
\* is Active.
C9_EntryIffActive == \A p \in Peers : p \in peers <=> Active(p)

\* C9 as amended: the registry holds an entry for p exactly from the insert
\* of State::add until the handler's own state.peers.remove(&addr) has been
\* carried out: while the handler is Active, and while it is past its read
\* loop and has yet to get through the remove.
C9_EntryUntilRemoved ==
    \A p \in Peers : p \in peers <=> (Active(p) \/ pc[p] = "remove")

\* C9 witness: a read loop has ended, the entry is still there, and the
\* remove has to wait for a broadcast that holds the shard.
C9_Witness ==
    \E p \in Peers :
        /\ pc[p] = "remove"
        /\ p \in peers
        /\ ~WriteLockFree(determine_shard(p))

\* The messages of one sender lie in every mailbox in the order of their ranks.
MailboxOrdered ==
    \A r \in Peers : \A i, j \in 1..Len(mailbox[r]) :
        (i < j /\ mailbox[r][i].from = mailbox[r][j].from)
            => Rank(mailbox[r][i]) < Rank(mailbox[r][j])

\* The message of a sender that lies last in a mailbox is the last one of
\* that sender that was enqueued into it.
LastAgrees ==
    \A r \in Peers : \A i \in 1..Len(mailbox[r]) :
        (\A j \in (i + 1)..Len(mailbox[r]) : mailbox[r][j].from # mailbox[r][i].from)
            => Rank(mailbox[r][i]) = last[r][mailbox[r][i].from]

HeldUp(p) == pc[p] \in {"username", "bc", "bc_send", "bc_remove", "remove"}

\* C11: an error of one connection (handshake, read, write, failed delivery)
\* neither ends nor stalls for good a task of another connection: once the
\* tasks have done all they can, no handler is left inside an insert, a
\* broadcast or a remove, and every write task with a message pending has
\* ended or can go on.
C11_ErrorsStayLocal ==
    (Running /\ Quiescent) =>
        \A p \in Peers :
            /\ ~HeldUp(p)
            /\ (rx[p] = "open" => mailbox[p] = <<>>)

\* C12: an accept error does not end the server: main stays in its accept
\* loop whatever accept returns.
C12_AcceptErrorKeepsServing == server # "exited"

\* Broadcaster p has found the mailbox of r closed (send returned Err) and has
\* not got past the removal of r's entry.
Detected(p, r) == pc[p] = "bc_remove" /\ cur[p] = r

\* C13: the detection of a closed mailbox during a broadcast leads to the
\* removal of the dead peer's entry and to a Left message for it: once the
\* tasks have done all they can, no detection is left pending, the entry of
\* every peer detected dead is gone and every peer still registered has been
\* sent its UserLeft.
C13_ClosedMailboxLeadsToRemoval ==
    (Running /\ Quiescent) =>
        \A p \in Peers, r \in Peers :
            Detected(p, r) =>
                /\ r \notin peers
                /\ \A q \in peers \ {r} : last[q][r] = Rank(user_left(r))

\* C14: a write failure on the socket of a registered peer is followed by the
\* peer's unregistration and its Left broadcast through the end of its read
\* loop: once the tasks have done all they can, every peer whose write task
\* ended on a write error and whose read loop has ended has no entry left and
\* its handler has returned from its UserLeft broadcast.
C14_WriteFailureLeadsToLeft ==
    (Running /\ Quiescent) =>
        \A r \in Peers :
            (rx[r] = "failed" /\ HasLeft(r)) =>
                (r \notin peers /\ pc[r] = "returned")

\* The places of the messages of sender s in the mailbox of r.
Pending(r, s) == {i \in 1..Len(mailbox[r]) : mailbox[r][i].from = s}

\* The message of rank k that the handler of s builds.
MessageOfRank(s, k) ==
    CASE k = 1 -> user_joined(s)
      [] k \in 2..(1 + MaxLines) -> chat(s, k - 1)
      [] k = 2 + MaxLines -> user_left(s)
      [] OTHER -> NoMsg

WireForm(m) ==
    CASE m.kind = "UserJoined" -> "[" \o username[m.from] \o " has joined the chat]"
      [] m.kind = "UserLeft" -> "[" \o username[m.from] \o " has left the chat :(]"
      [] m.kind = "Chat" -> username[m.from] \o ": " \o typed[m.n]
      [] OTHER -> ""

\* C16: rendering a Message gives "[<username> has joined the chat]" for a
\* join, "[<username> has left the chat :(]" for a leave and
\* "<sender>: <content>" for a chat, for every username, sender and content:
\* whatever message a write task has rendered and written, the line on the
\* socket is that wire form.
C16_RenderingIsWireForm ==
    \A r \in Peers, s \in Peers :
        (rx[r] = "open" /\ Pending(r, s) = {} /\ last[r][s] > 0) =>
            out[r][s] = WireForm(MessageOfRank(s, last[r][s]))

\* C16 witness: a leave of a connection named "bob" has been rendered and
\* written as "[bob has left the chat :(]".
C16_Witness ==
    \E r \in Peers, s \in Peers :
        /\ last[r][s] = Rank(user_left(s))
        /\ out[r][s] = "[bob has left the chat :(]"

\* C17: no mailbox ever holds more pending messages than the capacity its
\* channel was created with, which is at most MAX_MESSAGES = 128.
C17_MailboxBounded ==
    /\ Capacity <= MAX_MESSAGES
    /\ \A r \in Peers : Len(mailbox[r]) <= Capacity

\* C17 witness: a mailbox is filled to its capacity and a broadcaster that
\* has one more message for it is suspended in send.
C17_Witness ==
    \E p \in Peers, r \in Peers :
        /\ pc[p] = "bc_send"
        /\ cur[p] = r
        /\ Len(mailbox[r]) = Capacity

\* C18: a failed bind is fatal: main has returned before its accept loop, no
\* accept ever takes place, no connection is accepted, no handler and no
\* write task is spawned, and nothing is registered.
C18_BindFailureIsFatal ==
    server = "bind_failed" =>
        /\ ~ENABLED (AcceptError \/ \E p \in Peers : Accept(p))
        /\ \A p \in Peers : ~ENABLED TaskStep(p)
        /\ \A p \in Peers : pc[p] = "unconnected" /\ rx[p] = "none"
        /\ peers = {}

\* C18 witness: the bind has failed.
C18_Witness == server = "bind_failed"

\* C19: the registry's insert and remove never wait for a broadcast that is
\* suspended on the mailbox of an unrelated peer: a handler about to insert
\* or to remove its own entry can do so whenever every read guard on its
\* shard belongs to a broadcast suspended in send to another peer's mailbox.
C19_RegistryNeverWaitsOnMailbox ==
    \A p \in Peers :
        (/\ pc[p] \in {"username", "remove"}
         /\ \A q \in Peers :
               guard[q] = determine_shard(p) => (pc[q] = "bc_send" /\ cur[q] # p))
            => ENABLED (Add(p) \/ Remove(p))

\* C20: the write loop of every connection that has come to its end
\* terminates: once the tasks have done all they can, no connection whose
\* read loop has ended still has its write task running.
C20_WriteLoopsTerminate ==
    (Running /\ Quiescent) =>
        \A r \in Peers : HasLeft(r) => rx[r] # "open"

\* This step is one of the write task of r: it takes a message out of the
\* mailbox, or the task ends.
WriteTaskStep(r) ==
    /\ rx[r] = "open"
    /\ rx'[r] # "open" \/ Len(mailbox'[r]) < Len(mailbox[r])

\* C21: the write loop never modifies the registry: while the server runs, a
\* step of a write task (a write, its end on a write error, its end on a
\* closed channel) leaves the registry as it is; an entry is removed only by
\* a handler after its read loop (its own entry) or by a broadcaster in its
\* delivery-failure path (the entry of the failed target); and an entry is
\* inserted only by the handler that completes its handshake.
C21_WriteLoopLeavesRegistry ==
    [][server' = "listening" =>
          /\ \A r \in Peers : WriteTaskStep(r) => peers' = peers
          /\ \A k \in peers \ peers' :
                \E p \in Peers :
                    /\ pc'[p] # pc[p]
                    /\ \/ pc[p] = "remove" /\ k = p
                       \/ pc[p] = "bc_remove" /\ k = cur[p]
          /\ \A k \in peers' \ peers : pc[k] = "username"]_vars

\* C21 witness: a write task has ended on a write error and another on a
\* closed channel, and the entry of the first is still in the registry while
\* its handler reads on.
C21_Witness ==
    \E r \in Peers, x \in Peers :
        /\ rx[r] = "failed"
        /\ r \in peers
        /\ pc[r] = "read"
        /\ rx[x] = "closed"

\* C22: a broadcast that meets a closed mailbox always returns: once the
\* tasks have done all they can, no broadcaster is left in the removal of
\* its delivery-failure path.
C22_ClosedMailboxBroadcastReturns ==
    (Running /\ Quiescent) => \A p \in Peers : pc[p] # "bc_remove"

\* C23: the messages of a connection S reach a recipient R in lifecycle
\* order. Every message of S that is enqueued for R was built after all that
\* were enqueued for R before (so no second Joined, nothing before a Joined
\* that R gets, no Chat after the Left, no second Left); when S's UserJoined
\* broadcast returns, every R registered throughout it has the Joined as its
\* only message of S so far; and when S's UserLeft broadcast returns, every R
\* registered throughout it has the Left as its last message of S.
C23_LifecycleOrder ==
    [][server' = "listening" =>
          /\ \A r \in Peers, s \in Peers :
                /\ last'[r][s] >= last[r][s]
                /\ Len(mailbox'[r]) > Len(mailbox[r]) /\ mailbox'[r][Len(mailbox'[r])].from = s
                      => /\ last'[r][s] > last[r][s]
                         /\ Rank(mailbox'[r][Len(mailbox'[r])]) = last'[r][s]
          /\ \A s \in Peers :
                Returns(s) =>
                    \A r \in whole[s] :
                        /\ bmsg[s].kind = "UserJoined" => last[r][s] = Rank(user_joined(s))
                        /\ bmsg[s].kind = "UserLeft" => last[r][s] = Rank(user_left(s))]_vars

\* C23 witness: S has read a line and ended, its UserLeft broadcast is about
\* to return, and a recipient that was registered throughout it has been sent
\* the Left, which is still in its mailbox.
C23_Witness ==
    \E s \in Peers, r \in Peers :
        /\ Completing(s, "UserLeft")
        /\ r \in whole[s]
        /\ lines[s] >= 1
        /\ last[r][s] = Rank(user_left(s))
        /\ Pending(r, s) # {}

\* C24: each connection inserts its entry at most once: while the server
\* runs, an entry appears only for a connection that never had one, at the
\* end of its handshake, and a connection whose entry has been removed stays
\* without one, whatever its handler goes on to broadcast.
C24_InsertAtMostOnce ==
    [][server' = "listening" =>
          \A p \in Peers :
              /\ (p \notin peers /\ p \in peers') => (rx[p] = "none" /\ pc[p] = "username")
              /\ Unregistered(p) => p \notin peers']_vars

\* C24 witness: the entry of a connection is gone and its handler, still
\* running, has enqueued a message of its own for another peer.
C24_Witness ==
    \E p \in Peers, r \in Peers :
        /\ Unregistered(p)
        /\ InBroadcast(p)
        /\ r \in peers
        /\ Delivered(p, r)

\* C25: one broadcast call enqueues its message at most once into any one
\* mailbox, whoever registers or is removed meanwhile: whenever a step of
\* broadcaster p puts its message into the mailbox of r, the message has not
\* been enqueued for r before and is not in r's mailbox.
C25_NoDuplicateInFanOut ==
    [][\A p \in Peers, r \in Peers :
          (/\ InBroadcast(p)
           /\ Len(mailbox'[r]) > Len(mailbox[r])
           /\ mailbox'[r][Len(mailbox'[r])] = bmsg[p])
              => /\ last[r][p] < Rank(bmsg[p])
                 /\ \A i \in 1..Len(mailbox[r]) : mailbox[r][i] # bmsg[p]]_vars

\* C25 witness: a broadcast in progress has enqueued its message both for a
\* peer registered since before the call and for a peer that registered
\* while the iteration was under way.
C25_Witness ==
    \E p \in Peers, r \in Peers, q \in Peers :
        /\ InBroadcast(p)
        /\ r \in whole[p] /\ Delivered(p, r)
        /\ q \in peers \ (whole[p] \cup {p}) /\ Delivered(p, q)

\* The channel of r has a Sender and its Receiver: send and recv both work.
ChannelOpen(r) == Senders(r) > 0 /\ rx[r] = "open"

\* C26 as claimed: a mailbox channel is open exactly while its registry
\* entry exists.
C26_ChannelOpenIffEntry == \A r \in Peers : r \in peers <=> ChannelOpen(r)

\* C26 as amended: each channel has at most one Sender, the one in the
\* registry, so a channel is open only while its entry exists, and its write
\* task sees it closed (recv() = None) only after the entry has been removed,
\* and can see it so as soon as the entry is removed and the buffer drained;
\* the channel under an existing entry is closed only when the write task
\* has ended on a write error and dropped the Receiver.
C26_SenderIffEntry ==
    \A r \in Peers :
        /\ Senders(r) <= 1
        /\ ChannelOpen(r) => r \in peers
        /\ rx[r] = "closed" => r \notin peers
        /\ (r \in peers /\ ~ChannelOpen(r)) => rx[r] = "failed"
        /\ (rx[r] = "open" /\ r \notin peers /\ mailbox[r] = <<>>) => ENABLED WriteClosed(r)

\* C26 witness: one entry is there with its channel closed by a write error,
\* and another entry has been removed while its write task is still to see
\* the closure.
C26_Witness ==
    \E r \in Peers, x \in Peers :
        /\ r \in peers
        /\ rx[r] = "failed"
        /\ x \notin peers
        /\ rx[x] = "open"

====
